---- MODULE Spec2Model ----
(***************************************************************************)
(* Model of crypto_compare_project: coin_project.py (HTTP client, fetch    *)
(* window, populate steps, main) and database_manager.py (SQLite adapter). *)
(*                                                                         *)
(* Time is counted in whole hours since the epoch; a daily candle of the   *)
(* remote API carries the timestamp of its day's midnight (day * 24).      *)
(* A pandas float is an exact fraction <<n, d>>, NaN is <<>>.              *)
(***************************************************************************)
EXTENDS Integers, Sequences, FiniteSets, TLC

\* ---------------------------------------------------------------- bounds
\* Number of clock advances in a behaviour.
MaxTicks == 2
\* The remote API returns at most this many daily candles per request.
ApiMaxRows == 2
\* Days from which the pure-function inputs draw their candle dates.
MaxDays == 3

\* ------------------------------------------------------ program constants
CRYPTOCURRENCIES == <<"BTC", "ETH">>
DefaultLimit == 2000
StartLookbackDays == 365
HoursPerDay == 24
MaxAgeDefault == 24
MaxAgeCoinData == 4380
MaxAgePriceHistory == 24 * 60
MaxAgeMarketCap == 24
MaxAgeTradingVolumes == 24
MaxAgePopulateData == 24

TableNames == {"coin_info", "price_history", "market_cap", "trading_volumes"}
None == -1

\* ------------------------------------------------------------ floats
NaN == <<>>

Abs(n) == IF n < 0 THEN -n ELSE n

RECURSIVE Gcd(_, _)
Gcd(a, b) == IF b = 0 THEN a ELSE Gcd(b, a % b)

\* The fraction n/d in lowest terms with a positive denominator.
Frac(n, d) ==
    LET g == Gcd(Abs(n), Abs(d))
        s == IF d < 0 THEN -1 ELSE 1
    IN  <<(s * n) \div g, (s * d) \div g>>

Float(n) == <<n, 1>>

IsNaN(x) == x = NaN

\* a / b - 1, times 100: what Series.pct_change() * 100 computes for one row.
PctOf(prev, curr) ==
    IF IsNaN(prev) \/ IsNaN(curr) \/ prev[1] = 0 THEN NaN
    ELSE Frac((curr[1] * prev[2] - prev[1] * curr[2]) * 100, prev[1] * curr[2])

\* ------------------------------------------------------------ strings
\* str.replace(old, '') on the column names this program builds.
StrReplace(s, old) ==
    LET heads == {CRYPTOCURRENCIES[i] : i \in DOMAIN CRYPTOCURRENCIES}
        tails == {"", " Change"}
        hit == {<<a, b>> \in heads \X tails : s = a \o old \o b}
    IN  IF hit = {} THEN s
        ELSE LET p == CHOOSE p \in hit : TRUE IN p[1] \o p[2]

\* ------------------------------------------------------------ data frames
\* A DataFrame: its column names in order and its rows in order, each row a
\* function from column name to value.
EmptyDataFrame == [columns |-> <<>>, rows |-> <<>>]

\* DataFrame.empty: any axis of length 0.
DfEmpty(df) == Len(df.columns) = 0 \/ Len(df.rows) = 0

HasColumn(df, c) == \E i \in DOMAIN df.columns : df.columns[i] = c

SeqToSet(s) == {s[i] : i \in DOMAIN s}

RECURSIVE SortAsc(_)
SortAsc(S) ==
    IF S = {} THEN <<>>
    ELSE LET m == CHOOSE x \in S : \A y \in S : x <= y
         IN  <<m>> \o SortAsc(S \ {m})

\* The elements of sequence s that satisfy keep, in order.
RECURSIVE FilterSeq(_, _)
FilterSeq(s, keep) ==
    IF s = <<>> THEN <<>>
    ELSE IF Head(s) \in keep THEN <<Head(s)>> \o FilterSeq(Tail(s), keep)
         ELSE FilterSeq(Tail(s), keep)

DfDates(df) == [i \in DOMAIN df.rows |-> df.rows[i]["Date"]]

RowAt(df, date) ==
    LET i == CHOOSE i \in DOMAIN df.rows : df.rows[i]["Date"] = date
    IN  df.rows[i]

\* pd.DataFrame({'Date': timestamps, name: values}) of one response body.
TempDf(name, candles, field) ==
    [columns |-> <<"Date", name>>,
     rows |-> [i \in DOMAIN candles |->
                 [c \in {"Date", name} |->
                    IF c = "Date" THEN candles[i].time
                    ELSE Float(candles[i][field])]]]

\* Key order of an outer merge: keys sorted lexicographically (pandas >= 2.2),
\* or the left keys in left order followed by the right-only keys.
OuterKeys(left, right, sorts) ==
    LET lk == DfDates(left)
        rk == DfDates(right)
    IN  IF sorts THEN SortAsc(SeqToSet(lk) \cup SeqToSet(rk))
        ELSE lk \o FilterSeq(rk, SeqToSet(rk) \ SeqToSet(lk))

\* pd.merge(left, right, on='Date', how='outer'); dates are unique in each frame.
MergeOuter(left, right, sorts) ==
    LET keys == OuterKeys(left, right, sorts)
        rcols == FilterSeq(right.columns, SeqToSet(right.columns) \ {"Date"})
        cols == left.columns \o rcols
        cell(k, c) ==
            IF c = "Date" THEN k
            ELSE IF HasColumn(left, c)
                 THEN IF k \in SeqToSet(DfDates(left)) THEN RowAt(left, k)[c] ELSE NaN
                 ELSE IF k \in SeqToSet(DfDates(right)) THEN RowAt(right, k)[c] ELSE NaN
    IN  [columns |-> cols,
         rows |-> [i \in DOMAIN keys |-> [c \in SeqToSet(cols) |-> cell(keys[i], c)]]]

\* ------------------------------------------------------------ remote API
\* What the remote service holds: the first day each coin has a daily candle,
\* and the candle values.
ApiFirstDay(sym) == IF sym = "BTC" THEN 0 ELSE 1
ApiClose(sym, day) == IF sym = "BTC" THEN 100 + 10 * day ELSE 50 + 20 * day
ApiVolume(sym, day) == IF sym = "BTC" THEN 7 + day ELSE 3 + day
ApiMktCap(sym) == IF sym = "BTC" THEN 900 ELSE 400
ApiCoinName(sym) == IF sym = "BTC" THEN "Bitcoin" ELSE "Ethereum"

\* Body of data/v2/histoday?fsym=sym&limit=limit&toTs=toTs: the daily candles
\* of the limit + 1 days ending on toTs's day, oldest first, the most recent
\* ApiMaxRows of them at most.
ApiCandles(sym, limit, toTs) ==
    LET endDay == toTs \div HoursPerDay
        days == {d \in 0..endDay : /\ d >= endDay - limit
                                   /\ d > endDay - ApiMaxRows
                                   /\ d >= ApiFirstDay(sym)}
        asc == SortAsc(days)
    IN  [i \in DOMAIN asc |->
           [time |-> asc[i] * HoursPerDay,
            close |-> ApiClose(sym, asc[i]),
            volumeto |-> ApiVolume(sym, asc[i])]]

HttpStatuses == {200, 500}

\* A response: its status, whether its body is JSON holding the keys the
\* caller reads, and the payload under those keys.
Response(status, ok, data) == [status |-> status, ok |-> ok, data |-> data]

\* Response.raise_for_status(): raises HTTPError for 4xx and 5xx.
RaisesForStatus(status) == status >= 400 /\ status < 600

\* ------------------------------------------------------------ storage
\* database_manager.py: a table is absent, or holds its rows in rowid order.
NoTable == [exists |-> FALSE, pk |-> FALSE, rows |-> <<>>]
EmptyDb == [t \in TableNames |-> NoTable]

TableExists(d, t) == d[t].exists

\* CREATE TABLE IF NOT EXISTS; pk: the Symbol column is a PRIMARY KEY.
CreateTable(d, t, pk) ==
    IF d[t].exists THEN d
    ELSE [d EXCEPT ![t] = [exists |-> TRUE, pk |-> pk, rows |-> <<>>]]

\* DROP TABLE IF EXISTS
DropTable(d, t) == [d EXCEPT ![t] = NoTable]

MaxOf(S) == CHOOSE x \in S : \A y \in S : y <= x

\* SELECT MAX(date), parsed; None for no rows. raised: the table is absent
\* (sqlite3.OperationalError, printed and re-raised).
GetNewestDate(d, t) ==
    IF ~d[t].exists THEN [raised |-> TRUE, value |-> None]
    ELSE LET dates == {d[t].rows[i].date : i \in DOMAIN d[t].rows}
         IN  [raised |-> FALSE,
              value |-> IF dates = {} THEN None ELSE MaxOf(dates)]

ShouldFetchGe(d, t, max_age_hours, at) ==
    IF ~d[t].exists THEN [raised |-> TRUE, value |-> FALSE]
    ELSE IF Len(d[t].rows) = 0 THEN [raised |-> FALSE, value |-> TRUE]
    ELSE LET last_update_date == GetNewestDate(d, t).value
         IN  [raised |-> FALSE,
              value |-> (last_update_date = None
                         \/ (at - last_update_date) >= max_age_hours)]

\* should_fetch_data: SELECT COUNT(*) raises on an absent table.
ShouldFetchData(d, t, max_age_hours, at) ==
    IF ~d[t].exists THEN [raised |-> TRUE, value |-> FALSE]
    ELSE IF Len(d[t].rows) = 0 THEN [raised |-> FALSE, value |-> TRUE]
    ELSE LET last_update_date == GetNewestDate(d, t).value
         IN  [raised |-> FALSE,
              value |-> (last_update_date = None
                         \/ (at - last_update_date) > max_age_hours)]

Symbols(rows) == {rows[i].symbol : i \in DOMAIN rows}

\* insert_dataframe: executemany + commit; any sqlite3.Error rolls the whole
\* batch back and is re-raised.
InsertDataframe(d, t, rows) ==
    IF ~d[t].exists THEN [raised |-> TRUE, db |-> d]
    ELSE IF /\ d[t].pk
            /\ \/ Symbols(rows) \cap Symbols(d[t].rows) # {}
               \/ \E i, j \in DOMAIN rows : i # j /\ rows[i].symbol = rows[j].symbol
         THEN [raised |-> TRUE, db |-> d]
    ELSE [raised |-> FALSE, db |-> [d EXCEPT ![t].rows = @ \o rows]]

\* DataFrame.to_sql(t, conn, if_exists=..., index=False)
ToSqlAppend(d, t, rows) ==
    LET c == CreateTable(d, t, FALSE)
    IN  [c EXCEPT ![t].rows = @ \o rows]

ToSqlReplace(d, t, rows) ==
    [d EXCEPT ![t] = [exists |-> TRUE, pk |-> FALSE, rows |-> rows]]

\* ------------------------------------------------------------ fetch window
GetStartDate(newest_date, at) ==
    IF newest_date = None THEN at - StartLookbackDays * HoursPerDay
    ELSE newest_date

GetLimitRoundedUp(newest_date, end_date) ==
    IF newest_date # None THEN (end_date - newest_date) \div HoursPerDay + 1
    ELSE DefaultLimit

\* timedelta.days of end_date - newest_date, or 2000
GetLimit(newest_date, end_date) ==
    IF newest_date # None THEN (end_date - newest_date) \div HoursPerDay
    ELSE DefaultLimit

HistoUrl(symbol, limit, end_timestamp) ==
    [kind |-> "histoday", fsym |-> symbol, limit |-> limit, toTs |-> end_timestamp]

ConstructApiUrls(coins, limit, end_timestamp) ==
    [i \in DOMAIN coins |-> HistoUrl(coins[i], limit, end_timestamp)]

CoinlistUrl == [kind |-> "coinlist", fsym |-> "", limit |-> 0, toTs |-> 0]
PriceMultiUrl(coins) == [kind |-> "pricemultifull", fsym |-> coins, limit |-> 0, toTs |-> 0]

\* What the remote service answers under the keys the caller reads.
ApiBody(url) ==
    IF url.kind = "histoday" THEN ApiCandles(url.fsym, url.limit, url.toTs)
    ELSE IF url.kind = "coinlist"
         THEN [i \in DOMAIN CRYPTOCURRENCIES |->
                 [Symbol |-> CRYPTOCURRENCIES[i],
                  CoinName |-> ApiCoinName(CRYPTOCURRENCIES[i])]]
    ELSE [i \in DOMAIN CRYPTOCURRENCIES |->
            [symbol |-> CRYPTOCURRENCIES[i], MKTCAP |-> ApiMktCap(CRYPTOCURRENCIES[i])]]

\* requests.get(url): the network chooses the status and whether the body is
\* the JSON document the endpoint serves.
HttpGet(url, choice) ==
    Response(choice.status, choice.ok, IF choice.ok THEN ApiBody(url) ELSE <<>>)

NetChoices == [status : HttpStatuses, ok : BOOLEAN]

Req(url, status) == [url |-> url, status |-> status]

\* ------------------------------------------------------------ HTTP client
\* The loop of fetch_price_history / fetch_trading_volumes from symbol i on:
\* get, raise_for_status, parse, build temp_df, take it or outer-merge it.
\* n counts the requests issued.
RECURSIVE FetchSeriesLoop(_, _, _, _, _, _, _)
FetchSeriesLoop(i, df, coins, responses, field, suffix, sorts) ==
    IF i > Len(coins) THEN [err |-> "none", df |-> df, n |-> Len(coins)]
    ELSE IF RaisesForStatus(responses[i].status)
         THEN [err |-> "HTTPError", df |-> EmptyDataFrame, n |-> i]
    ELSE IF ~responses[i].ok
         THEN [err |-> "BodyError", df |-> EmptyDataFrame, n |-> i]
    ELSE LET temp_df == TempDf(coins[i] \o suffix, responses[i].data, field)
         IN  FetchSeriesLoop(i + 1,
                             IF DfEmpty(df) THEN temp_df
                             ELSE MergeOuter(df, temp_df, sorts),
                             coins, responses, field, suffix, sorts)

\* fetch_price_history; responses[i] is what requests.get(urls[i]) returns.
FetchPriceHistory(urls, coins, responses, sorts) ==
    FetchSeriesLoop(1, EmptyDataFrame, coins, responses, "close", " Price", sorts)

\* fetch_trading_volumes; responses[i] answers the i-th symbol's request.
FetchTradingVolumes(coins, limit, end_timestamp, responses, sorts) ==
    FetchSeriesLoop(1, EmptyDataFrame, coins, responses, "volumeto", " Volume", sorts)

\* fetch_coin_info: one request, no status check; the body is parsed and
\* indexed by every symbol. One row per symbol, dated now.
FetchCoinInfo(coins, at, r) ==
    IF ~r.ok THEN [err |-> "BodyError", rows |-> <<>>]
    ELSE [err |-> "none",
          rows |-> [i \in DOMAIN coins |->
                      LET coin == r.data[CHOOSE j \in DOMAIN r.data :
                                           r.data[j].Symbol = coins[i]]
                      IN  [symbol |-> coins[i], name |-> coin.CoinName, date |-> at]]]

\* fetch_market_cap: one request, no status check; returns data["RAW"].
FetchMarketCap(r) ==
    IF ~r.ok THEN [err |-> "BodyError", data |-> <<>>]
    ELSE [err |-> "none", data |-> r.data]

\* ------------------------------------------------------------ price change
ColumnValues(df, c) == [i \in DOMAIN df.rows |-> df.rows[i][c]]

\* Forward fill: the last non-NaN value at or before row i.
Ffill(vals, i) ==
    LET seen == {j \in 1..i : ~IsNaN(vals[j])}
    IN  IF seen = {} THEN NaN ELSE vals[MaxOf(seen)]

\* Series.pct_change() * 100 (fill_method='pad')
PctChange(vals) ==
    [i \in DOMAIN vals |->
        IF i = 1 THEN NaN ELSE PctOf(Ffill(vals, i - 1), Ffill(vals, i))]

WithColumn(df, name, vals) ==
    [columns |-> df.columns \o <<name>>,
     rows |-> [i \in DOMAIN df.rows |->
                 [c \in SeqToSet(df.columns) \cup {name} |->
                    IF c = name THEN vals[i] ELSE df.rows[i][c]]]]

\* calculate_price_change from coin i on; KeyError when a coin has no column.
RECURSIVE PriceChangeLoop(_, _)
PriceChangeLoop(i, df) ==
    IF i > Len(CRYPTOCURRENCIES) THEN [err |-> "none", df |-> df]
    ELSE LET column_name == CRYPTOCURRENCIES[i] \o " Price"
         IN  IF ~HasColumn(df, column_name)
             THEN [err |-> "KeyError", df |-> df]
             ELSE PriceChangeLoop(i + 1,
                      WithColumn(df, CRYPTOCURRENCIES[i] \o " Price Change",
                                 PctChange(ColumnValues(df, column_name))))

CalculatePriceChange(df) == PriceChangeLoop(1, df)

\* df.sort_values('Date')
SortValues(df) ==
    LET asc == SortAsc(SeqToSet(DfDates(df)))
    IN  [columns |-> df.columns,
         rows |-> [i \in DOMAIN asc |-> RowAt(df, asc[i])]]

\* df.melt(id_vars=['Date'], var_name='symbol', ...): one (Date, symbol,
\* value) triple per value column and row, column by column.
Melt(df) ==
    LET vars == FilterSeq(df.columns, SeqToSet(df.columns) \ {"Date"})
        nr == Len(df.rows)
    IN  [k \in 1..(Len(vars) * nr) |->
           LET c == vars[((k - 1) \div nr) + 1]
               r == df.rows[((k - 1) % nr) + 1]
           IN  [Date |-> r["Date"], symbol |-> c, value |-> r[c]]]

\* ------------------------------------------------------------ populate steps
\* Every step returns its outcome, the storage it leaves and the requests it
\* issued. outcome: "skipped", "done", or the exception that ended it.
StepResult(outcome, d, http) == [outcome |-> outcome, db |-> d, http |-> http]

FreshNotDropped(d, t, max_age, at) ==
    TableExists(d, t) /\ ShouldFetchData(d, t, max_age, at).value

\* The guard of every populate step: table_exists(t) and not should_fetch_data(t, max_age)
Fresh(d, t, max_age, at) ==
    TableExists(d, t) /\ ~ShouldFetchData(d, t, max_age, at).value

\* ",".join(CRYPTOCURRENCIES)
RECURSIVE Join(_)
Join(coins) ==
    IF Len(coins) = 0 THEN ""
    ELSE IF Len(coins) = 1 THEN coins[1]
    ELSE coins[1] \o "," \o Join(Tail(coins))

\* get_historic_prices
GetHistoricPrices(coins, d, at, net, sorts) ==
    LET newest_date == IF TableExists(d, "price_history")
                       THEN GetNewestDate(d, "price_history").value ELSE None
        limit == GetLimit(newest_date, at)
        urls == ConstructApiUrls(coins, limit, at)
        f == FetchPriceHistory(urls, coins,
                               [i \in DOMAIN urls |-> HttpGet(urls[i], net[i])], sorts)
        http == [i \in 1..f.n |-> Req(urls[i], net[i].status)]
    IN  IF f.err # "none" THEN [err |-> f.err, df |-> EmptyDataFrame, http |-> http]
        ELSE LET c == CalculatePriceChange(f.df)
             IN  IF c.err # "none"
                 THEN [err |-> c.err, df |-> EmptyDataFrame, http |-> http]
                 ELSE [err |-> "none", df |-> SortValues(c.df), http |-> http]

\* populate_data(db_manager, table_name, fetch_coin_info, CRYPTOCURRENCIES)
PopulateData(d, table_name, at, choice) ==
    IF Fresh(d, table_name, MaxAgePopulateData, at)
    THEN StepResult("skipped", d, <<>>)
    ELSE LET http == <<Req(CoinlistUrl, choice.status)>>
             f == FetchCoinInfo(CRYPTOCURRENCIES, at, HttpGet(CoinlistUrl, choice))
         IN  IF f.err # "none" THEN StepResult(f.err, d, http)
             ELSE LET ins == InsertDataframe(CreateTable(d, table_name, FALSE),
                                             table_name, f.rows)
                  IN  StepResult(IF ins.raised THEN "IntegrityError" ELSE "done",
                                 ins.db, http)

\* populate_coin_data: drops and recreates coin_info, fetches, inserts nothing.
PopulateCoinData(d, at, choice) ==
    IF Fresh(d, "coin_info", MaxAgeCoinData, at)
    THEN StepResult("skipped", d, <<>>)
    ELSE LET dropped == IF TableExists(d, "coin_info")
                        THEN DropTable(d, "coin_info") ELSE d
             created == CreateTable(dropped, "coin_info", TRUE)
             f == FetchCoinInfo(CRYPTOCURRENCIES, at, HttpGet(CoinlistUrl, choice))
         IN  StepResult(IF f.err # "none" THEN f.err ELSE "done", created,
                        <<Req(CoinlistUrl, choice.status)>>)

\* populate_historic_prices
PopulateHistoricPrices(d, at, net, sorts) ==
    IF Fresh(d, "price_history", MaxAgePriceHistory, at)
    THEN StepResult("skipped", d, <<>>)
    ELSE LET g == GetHistoricPrices(CRYPTOCURRENCIES, d, at, net, sorts)
         IN  IF g.err # "none" THEN StepResult(g.err, d, g.http)
             ELSE LET m == Melt(g.df)
                      rows == [k \in DOMAIN m |->
                                 [symbol |-> StrReplace(m[k].symbol, " Price"),
                                  date |-> m[k].Date,
                                  price |-> m[k].value,
                                  price_change |-> NaN]]
                  IN  StepResult("done",
                          ToSqlAppend(CreateTable(d, "price_history", FALSE),
                                      "price_history", rows),
                          g.http)

\* populate_market_cap
PopulateMarketCap(d, at, choice) ==
    IF Fresh(d, "market_cap", MaxAgeMarketCap, at)
    THEN StepResult("skipped", d, <<>>)
    ELSE LET url == PriceMultiUrl(Join(CRYPTOCURRENCIES))
             http == <<Req(url, choice.status)>>
             f == FetchMarketCap(HttpGet(url, choice))
         IN  IF f.err # "none" THEN StepResult(f.err, d, http)
             ELSE LET rows == [i \in DOMAIN f.data |->
                                 [symbol |-> f.data[i].symbol,
                                  market_cap |-> Float(f.data[i].MKTCAP),
                                  date |-> at]]
                  IN  StepResult("done",
                          ToSqlReplace(CreateTable(d, "market_cap", FALSE),
                                       "market_cap", rows),
                          http)

\* populate_trading_volumes
PopulateTradingVolumes(d, at, net, sorts) ==
    IF Fresh(d, "trading_volumes", MaxAgeTradingVolumes, at)
    THEN StepResult("skipped", d, <<>>)
    ELSE LET newest_date == IF TableExists(d, "trading_volumes")
                            THEN GetNewestDate(d, "trading_volumes").value ELSE None
             limit == GetLimit(newest_date, at)
             urls == [i \in DOMAIN CRYPTOCURRENCIES |->
                        HistoUrl(CRYPTOCURRENCIES[i], limit, at)]
             f == FetchTradingVolumes(CRYPTOCURRENCIES, limit, at,
                        [i \in DOMAIN urls |-> HttpGet(urls[i], net[i])], sorts)
             http == [i \in 1..f.n |-> Req(urls[i], net[i].status)]
         IN  IF f.err # "none" THEN StepResult(f.err, d, http)
             ELSE LET m == Melt(f.df)
                      rows == [k \in DOMAIN m |->
                                 [symbol |-> StrReplace(m[k].symbol, " Volume"),
                                  date |-> m[k].Date,
                                  volume |-> m[k].value]]
                  IN  StepResult("done",
                          ToSqlAppend(CreateTable(d, "trading_volumes", FALSE),
                                      "trading_volumes", rows),
                          http)

\* ------------------------------------------------------------ state
VARIABLES
    target,     \* the table whose populate function is called directly
    db,         \* crypto_data.db: table name -> table
    now,        \* datetime.now(), in hours
    ticks,      \* clock advances so far
    mainPc,     \* main(): "idle", "coin_info", "price_history", "exit_failure"
    mainSteps,  \* the populate steps the latest run of main has executed
    last,       \* the last operation: its name, outcome and HTTP requests
    responses,  \* pure-function runs: the responses handed to the fetch loop
    stage,      \* pure-function runs: position in get_historic_prices
    frame       \* pure-function runs: the data frame computed so far

vars == <<target, db, now, ticks, mainPc, mainSteps, last, responses, stage, frame>>
storeVars == <<db, now, ticks, mainPc, mainSteps, last>>
pureVars == <<responses, stage, frame>>

TickHours == {24, 25, 24 * 60 + 1}

Op(name, table, outcome, http) ==
    [op |-> name, table |-> table, outcome |-> outcome, http |-> http]

NoFrame == [err |-> "none", df |-> EmptyDataFrame]

\* The populate functions read and write only their own table, so a behaviour
\* follows runs of main() together with the direct calls of the populate
\* function of one table.
Init ==
    /\ target \in TableNames
    /\ db = EmptyDb
    /\ now = 0
    /\ ticks = 0
    /\ mainPc = "idle"
    /\ mainSteps = <<>>
    /\ last = Op("none", "", "none", <<>>)
    /\ responses = <<>>
    /\ stage = "off"
    /\ frame = NoFrame

\* The network's answers to one request per symbol; a request that is never
\* issued, because an earlier one failed, has no answer to choose.
Net ==
    {n \in [DOMAIN CRYPTOCURRENCIES -> NetChoices] :
        \A i, j \in DOMAIN CRYPTOCURRENCIES :
            (i < j /\ (RaisesForStatus(n[i].status) \/ ~n[i].ok))
                => n[j] = [status |-> 200, ok |-> TRUE]}

\* Time passes between invocations.
Tick ==
    /\ mainPc \in {"idle", "exit_failure"}
    /\ ticks < MaxTicks
    /\ \E h \in TickHours : now' = now + h
    /\ ticks' = ticks + 1
    /\ last' = Op("tick", "", "none", <<>>)
    /\ UNCHANGED <<target, db, mainPc, mainSteps, pureVars>>

\* main: DatabaseManager("crypto_data.db").connect()
MainConnect ==
    /\ mainPc \in {"idle", "exit_failure"}
    /\ mainPc' = "coin_info"
    /\ mainSteps' = <<>>
    /\ last' = Op("connect", "", "done", <<>>)
    /\ UNCHANGED <<target, db, now, ticks, pureVars>>

\* main: populate_data(db_manager, "coin_info", fetch_coin_info, CRYPTOCURRENCIES)
MainCoinInfo ==
    /\ mainPc = "coin_info"
    /\ \E choice \in NetChoices :
         LET r == PopulateData(db, "coin_info", now, choice)
         IN  /\ db' = r.db
             /\ last' = Op("populate_data", "coin_info", r.outcome, r.http)
             /\ mainPc' = IF r.outcome \in {"skipped", "done"}
                          THEN "price_history" ELSE "exit_failure"
             /\ mainSteps' = Append(mainSteps,
                                    Op("populate_data", "coin_info", r.outcome, r.http))
    /\ UNCHANGED <<target, now, ticks, pureVars>>

\* main: populate_data(db_manager, "price_history", ) -- the required
\* fetch_function is missing, so the call raises TypeError before the body
\* of populate_data runs; populate_market_cap and populate_trading_volumes
\* below it are never reached.
MainPriceHistory ==
    /\ mainPc = "price_history"
    /\ mainPc' = "exit_failure"
    /\ last' = Op("populate_data", "price_history", "TypeError", <<>>)
    /\ UNCHANGED <<target, db, now, ticks, mainSteps, pureVars>>

\* The populate functions called on their own.
CallPopulateCoinData ==
    /\ target = "coin_info"
    /\ mainPc \in {"idle", "exit_failure"}
    /\ \E choice \in NetChoices :
         LET r == PopulateCoinData(db, now, choice)
         IN  /\ db' = r.db
             /\ last' = Op("populate_coin_data", "coin_info", r.outcome, r.http)
    /\ UNCHANGED <<target, now, ticks, mainPc, mainSteps, pureVars>>

CallPopulateHistoricPrices ==
    /\ target = "price_history"
    /\ mainPc \in {"idle", "exit_failure"}
    /\ \E net \in Net, sorts \in BOOLEAN :
         LET r == PopulateHistoricPrices(db, now, net, sorts)
         IN  /\ db' = r.db
             /\ last' = Op("populate_historic_prices", "price_history",
                           r.outcome, r.http)
    /\ UNCHANGED <<target, now, ticks, mainPc, mainSteps, pureVars>>

CallPopulateMarketCap ==
    /\ target = "market_cap"
    /\ mainPc \in {"idle", "exit_failure"}
    /\ \E choice \in NetChoices :
         LET r == PopulateMarketCap(db, now, choice)
         IN  /\ db' = r.db
             /\ last' = Op("populate_market_cap", "market_cap", r.outcome, r.http)
    /\ UNCHANGED <<target, now, ticks, mainPc, mainSteps, pureVars>>

CallPopulateTradingVolumes ==
    /\ target = "trading_volumes"
    /\ mainPc \in {"idle", "exit_failure"}
    /\ \E net \in Net, sorts \in BOOLEAN :
         LET r == PopulateTradingVolumes(db, now, net, sorts)
         IN  /\ db' = r.db
             /\ last' = Op("populate_trading_volumes", "trading_volumes",
                           r.outcome, r.http)
    /\ UNCHANGED <<target, now, ticks, mainPc, mainSteps, pureVars>>

Next ==
    \/ Tick
    \/ MainConnect
    \/ MainCoinInfo
    \/ MainPriceHistory
    \/ CallPopulateCoinData
    \/ CallPopulateHistoricPrices
    \/ CallPopulateMarketCap
    \/ CallPopulateTradingVolumes

Spec == Init /\ [][Next]_vars

\* ------------------------------------------------------------ pure runs
\* The data-frame pipeline of get_historic_prices (fetch, price change, sort)
\* and of fetch_trading_volumes, on responses drawn from bounded sets.
CloseValues == {10, 20}

\* The candles of one response: per day 1..MaxDays a close, or 0 for no candle.
CandlesOf(f) ==
    LET asc == SortAsc({d \in 1..MaxDays : f[d] # 0})
    IN  [i \in DOMAIN asc |->
           [time |-> asc[i] * HoursPerDay, close |-> f[asc[i]], volumeto |-> f[asc[i]]]]

SeriesInputs == {CandlesOf(f) : f \in [1..MaxDays -> CloseValues \cup {0}]}

InitPure ==
    /\ target = "none"
    /\ db = EmptyDb
    /\ now = 0
    /\ ticks = 0
    /\ mainPc = "idle"
    /\ mainSteps = <<>>
    /\ last = Op("none", "", "none", <<>>)
    /\ responses \in [DOMAIN CRYPTOCURRENCIES ->
                        {Response(200, TRUE, c) : c \in SeriesInputs}]
    /\ stage = "input"
    /\ frame = NoFrame

\* get_historic_prices: df = fetch_price_history(urls, coins)
RunFetchPriceHistory ==
    /\ stage = "input"
    /\ \E sorts \in BOOLEAN :
         LET f == FetchPriceHistory(
                      ConstructApiUrls(CRYPTOCURRENCIES, DefaultLimit, now),
                      CRYPTOCURRENCIES, responses, sorts)
         IN  frame' = [err |-> f.err, df |-> f.df]
    /\ stage' = "prices"
    /\ UNCHANGED <<target, storeVars, responses>>

\* get_historic_prices: df = calculate_price_change(df)
RunCalculatePriceChange ==
    /\ stage = "prices"
    /\ frame' = CalculatePriceChange(frame.df)
    /\ stage' = IF frame'.err = "none" THEN "changed" ELSE "raised"
    /\ UNCHANGED <<target, storeVars, responses>>

\* get_historic_prices: df.sort_values('Date', inplace=True)
RunSortValues ==
    /\ stage = "changed"
    /\ frame' = [frame EXCEPT !.df = SortValues(frame.df)]
    /\ stage' = "sorted"
    /\ UNCHANGED <<target, storeVars, responses>>

\* populate_trading_volumes: df = fetch_trading_volumes(...)
RunFetchTradingVolumes ==
    /\ stage = "input"
    /\ \E sorts \in BOOLEAN :
         LET f == FetchTradingVolumes(CRYPTOCURRENCIES, DefaultLimit, now,
                                      responses, sorts)
         IN  frame' = [err |-> f.err, df |-> f.df]
    /\ stage' = "volumes"
    /\ UNCHANGED <<target, storeVars, responses>>

NextPure ==
    \/ RunFetchPriceHistory
    \/ RunCalculatePriceChange
    \/ RunSortValues
    \/ RunFetchTradingVolumes

SpecPure == InitPure /\ [][NextPure]_vars

\* ------------------------------------------------------------ claims
Is2xx(status) == status >= 200 /\ status < 300

MaxAges == {MaxAgePopulateData, MaxAgePriceHistory, MaxAgeCoinData}

\* The staleness a claim speaks of, read off the stored rows: the table is
\* absent, or empty, or every stored date is older than now - max_age.
StaleRows(t, max_age) ==
    \/ db[t].rows = <<>>
    \/ \A i \in DOMAIN db[t].rows : db[t].rows[i].date < now - max_age

\* C1 as stated: should_fetch_data returns true for an absent table, an empty
\* table and a table whose newest date is older than now - max_age, and false
\* otherwise; it never raises.
C1_ShouldFetchReturnsTrueForMissing ==
    \A t \in TableNames, a \in MaxAges :
        ShouldFetchData(db, t, a, now)
            = [raised |-> FALSE, value |-> (~db[t].exists \/ StaleRows(t, a))]

\* C1 amended: on an existing table should_fetch_data returns true exactly
\* when the table is empty or its newest date is older than now - max_age;
\* on an absent table it raises.
C1_ShouldFetchOnExistingTable ==
    \A t \in TableNames, a \in MaxAges :
        LET r == ShouldFetchData(db, t, a, now)
        IN  /\ db[t].exists => (~r.raised /\ r.value = StaleRows(t, a))
            /\ ~db[t].exists => r.raised

\* A step skipped its fetch on a table whose newest date is exactly 24 hours old.
C1_Witness ==
    /\ last.outcome = "skipped"
    /\ last.op = "populate_market_cap"
    /\ \E i \in DOMAIN db["market_cap"].rows :
           now - db["market_cap"].rows[i].date = MaxAgeMarketCap

\* The limit a claim expects in a history URL: dflt when the table holds no
\* date, else the whole days from the newest stored date to now.
ClaimedLimit(t, dflt) ==
    IF ~db[t].exists \/ db[t].rows = <<>> THEN dflt
    ELSE LET newest == CHOOSE x \in {db[t].rows[i].date : i \in DOMAIN db[t].rows} :
                          \A i \in DOMAIN db[t].rows : db[t].rows[i].date <= x
         IN  CHOOSE k \in 0..(now - newest) :
                 /\ k * HoursPerDay <= now - newest
                 /\ now - newest < (k + 1) * HoursPerDay

HistoryLimitsAre(dflt) ==
    \A i \in DOMAIN last'.http :
        last'.http[i].url.kind = "histoday"
            => last'.http[i].url.limit = ClaimedLimit(last'.table, dflt)

\* C2 as stated: the limit of every history request is 365 when no prior date
\* is stored, and the whole days since the newest stored date otherwise.
C2_LimitDefaultsTo365 == [][HistoryLimitsAre(StartLookbackDays)]_vars

\* C2 amended: the limit of every history request is 2000 when no prior date
\* is stored, and the whole days since the newest stored date otherwise.
C2_LimitDefaultsTo2000 == [][HistoryLimitsAre(DefaultLimit)]_vars

\* An incremental fetch of trading volumes asked for one day of history.
C2_Witness ==
    /\ last.op = "populate_trading_volumes"
    /\ Len(last.http) = Len(CRYPTOCURRENCIES)
    /\ \A i \in DOMAIN last.http : last.http[i].url.limit = 1

\* The freshness threshold each populate step passes to should_fetch_data.
ThresholdOf(op) ==
    IF op = "populate_coin_data" THEN MaxAgeCoinData
    ELSE IF op = "populate_historic_prices" THEN MaxAgePriceHistory
    ELSE IF op = "populate_market_cap" THEN MaxAgeMarketCap
    ELSE IF op = "populate_trading_volumes" THEN MaxAgeTradingVolumes
    ELSE MaxAgePopulateData

PopulateOps == {"populate_data", "populate_coin_data", "populate_historic_prices",
                "populate_market_cap", "populate_trading_volumes"}

C4_NonOkResponseRaises ==
    \A i \in DOMAIN last.http :
        ~Is2xx(last.http[i].status)
            => /\ last.outcome \notin {"done", "skipped"}
               /\ i = Len(last.http)
               /\ (last.op = "populate_data" => mainPc = "exit_failure")

\* C5: coin_info holds at most one row per symbol, all of them from the most
\* recent successful fetch.
C5_CoinInfoOneRowPerSymbol ==
    LET rows == db["coin_info"].rows
    IN  /\ \A i, j \in DOMAIN rows : rows[i].symbol = rows[j].symbol => i = j
        /\ \A i, j \in DOMAIN rows : rows[i].date = rows[j].date

\* C6: every stored row's symbol is one of CRYPTOCURRENCIES.
C6_SymbolsAreConfigured ==
    \A t \in TableNames : \A i \in DOMAIN db[t].rows :
        db[t].rows[i].symbol \in SeqToSet(CRYPTOCURRENCIES)

\* The dates of the candles in the response for coin i.
ResponseDates(i) == {responses[i].data[k].time : k \in DOMAIN responses[i].data}

\* C7: when some symbol has data, the merged frame of fetch_price_history /
\* fetch_trading_volumes has exactly one row per date in the union of the
\* symbols' dates, and each symbol's column holds its value on its own dates
\* and null elsewhere.
C7_MergeIsUnionOfDates ==
    (/\ stage \in {"prices", "volumes"}
     /\ frame.err = "none"
     /\ \E i \in DOMAIN CRYPTOCURRENCIES : ResponseDates(i) # {}) =>
        LET suffix == IF stage = "prices" THEN " Price" ELSE " Volume"
            field == IF stage = "prices" THEN "close" ELSE "volumeto"
            union == UNION {ResponseDates(i) : i \in DOMAIN CRYPTOCURRENCIES}
            rows == frame.df.rows
        IN  /\ Len(rows) = Cardinality(union)
            /\ {rows[r]["Date"] : r \in DOMAIN rows} = union
            /\ \A i \in DOMAIN CRYPTOCURRENCIES :
                 LET col == CRYPTOCURRENCIES[i] \o suffix
                     data == responses[i].data
                 IN  /\ HasColumn(frame.df, col)
                     /\ \A r \in DOMAIN rows :
                          IF rows[r]["Date"] \in ResponseDates(i)
                          THEN \E k \in DOMAIN data :
                                   /\ data[k].time = rows[r]["Date"]
                                   /\ rows[r][col] = <<data[k][field], 1>>
                          ELSE rows[r][col] = <<>>

\* C8: in the frame get_historic_prices returns, ordered by date, each
\* symbol's price change is null in the first row, and for consecutive rows
\* with prices prev and curr it is (curr - prev) / prev * 100.
C8_PriceChangeIsChronological ==
    (stage = "sorted") =>
        LET rows == frame.df.rows
        IN  /\ \A r \in DOMAIN rows : r > 1 => rows[r - 1]["Date"] < rows[r]["Date"]
            /\ \A i \in DOMAIN CRYPTOCURRENCIES :
                 LET price == CRYPTOCURRENCIES[i] \o " Price"
                     change == CRYPTOCURRENCIES[i] \o " Price Change"
                 IN  /\ rows # <<>> => rows[1][change] = <<>>
                     /\ \A r \in DOMAIN rows :
                          (r > 1 /\ rows[r - 1][price] # <<>> /\ rows[r][price] # <<>>)
                            => /\ rows[r][change] # <<>>
                               /\ rows[r][change][1] * rows[r - 1][price][1]
                                    = (rows[r][price][1] - rows[r - 1][price][1])
                                      * 100 * rows[r][change][2]

\* A run of main in which every request returned 2xx with a well-formed body
\* and every storage operation succeeded.
CleanRun ==
    \A s \in DOMAIN mainSteps :
        /\ mainSteps[s].outcome \in {"skipped", "done"}
        /\ \A i \in DOMAIN mainSteps[s].http : Is2xx(mainSteps[s].http[i].status)

\* C9: a clean run of main executes coin_info, price_history, market_cap and
\* trading_volumes in that order and exits successfully, leaving all four
\* tables present and non-empty.
C9_CleanRunCompletes ==
    (mainPc \in {"exit_failure", "exit_success"} /\ CleanRun) =>
        /\ mainPc = "exit_success"
        /\ [s \in DOMAIN mainSteps |-> mainSteps[s].table]
             = <<"coin_info", "price_history", "market_cap", "trading_volumes">>
        /\ \A t \in TableNames : db[t].exists /\ db[t].rows # <<>>

\* C10: price_history and trading_volumes hold at most one row per
\* (symbol, date).
C10_HistoryRowsAreUnique ==
    \A t \in {"price_history", "trading_volumes"} :
        \A i, j \in DOMAIN db[t].rows :
            (db[t].rows[i].symbol = db[t].rows[j].symbol
             /\ db[t].rows[i].date = db[t].rows[j].date) => i = j
====
